---- MODULE Spec2Model ----
(***************************************************************************)
(* BlogVerse content API (src/src/supabase/functions/server/index.tsx):    *)
(* the Hono handlers over the key-value store, as a state machine.         *)
(*                                                                         *)
(* The store is one TLA+ function per key namespace; a key exists exactly  *)
(* when it is in the DOMAIN of its function:                               *)
(*   blogs      blog:<id>             userBlogs  user:<id>:blogs           *)
(*   published  blog:published:<id>   comments   comment:<blogId>:<id>     *)
(*   users      user:<id>                                                  *)
(* Strings the handlers look into (titles, contents, search terms) are     *)
(* sequences of one-character strings.  Each handler is one action: the    *)
(* requests run one at a time, each to completion.  SpecSteps, further     *)
(* down, runs the handlers one store call at a time, so that the requests  *)
(* in flight interleave between their awaits.                              *)
(***************************************************************************)
EXTENDS Integers, Sequences, FiniteSets, TLC

VARIABLES blogs, published, userBlogs, comments, users,
          nextBlogId, nextCommentId, now, req, resp,
          inflight,   \* the requests between two of their awaits, and their locals
          returned    \* how many 200 responses each route gave, per blog

store == <<blogs, published, userBlogs, comments, users>>
vars == <<blogs, published, userBlogs, comments, users,
          nextBlogId, nextCommentId, now, req, resp, inflight, returned>>

(***************************************************************************)
(* Bounds of the model.                                                    *)
(***************************************************************************)
MaxBlogs == 2
MaxViews == 2
MaxComments == 1
MaxListed == 3
MaxPatchKeys == 2
MaxTitleLen == 4
MaxWords == 401
MaxManyBlogs == 11
MaxOwned == 1
MaxInFlight == 2
MaxRequests == 3

(***************************************************************************)
(* Characters and strings.                                                 *)
(***************************************************************************)
UpperChars == <<"A","B","C","D","E","F","G","H","I","J","K","L","M",
                "N","O","P","Q","R","S","T","U","V","W","X","Y","Z">>
LowerChars == <<"a","b","c","d","e","f","g","h","i","j","k","l","m",
                "n","o","p","q","r","s","t","u","v","w","x","y","z">>
Digits == {"0","1","2","3","4","5","6","7","8","9"}
Whitespace == {" ", "\t", "\n"}

Range(s) == {s[i] : i \in DOMAIN s}

\* String.prototype.toLowerCase, one character
LowerChar(c) ==
  IF \E i \in DOMAIN UpperChars : UpperChars[i] = c
  THEN LowerChars[CHOOSE i \in DOMAIN UpperChars : UpperChars[i] = c]
  ELSE c

toLowerCase(s) == [i \in DOMAIN s |-> LowerChar(s[i])]

\* String.prototype.trim: strips the whitespace at both ends
TrimStart(s) ==
  IF \A i \in DOMAIN s : s[i] \in Whitespace THEN <<>>
  ELSE SubSeq(s, CHOOSE i \in DOMAIN s :
                   /\ s[i] \notin Whitespace
                   /\ \A j \in 1..(i-1) : s[j] \in Whitespace, Len(s))

TrimEnd(s) ==
  IF \A i \in DOMAIN s : s[i] \in Whitespace THEN <<>>
  ELSE SubSeq(s, 1, CHOOSE i \in DOMAIN s :
                   /\ s[i] \notin Whitespace
                   /\ \A j \in (i+1)..Len(s) : s[j] \in Whitespace)

trim(s) == TrimEnd(TrimStart(s))

\* String.prototype.includes
includes(s, sub) ==
  \E i \in 0..(Len(s) - Len(sub)) : SubSeq(s, i+1, i+Len(sub)) = sub

\* s.replace(/[^a-z0-9\s-]/g, '')
StripOther(s) ==
  SelectSeq(s, LAMBDA c : \/ c \in Range(LowerChars)
                          \/ c \in Digits
                          \/ c \in Whitespace
                          \/ c = "-")

\* s.replace(/X+/g, '-') for a class X of characters: every maximal run of
\* characters of X becomes one hyphen
RECURSIVE ReplaceRuns(_, _)
ReplaceRuns(s, X) ==
  IF s = <<>> THEN <<>>
  ELSE IF s[1] \in X
       THEN IF Len(s) > 1 /\ s[2] \in X
            THEN ReplaceRuns(Tail(s), X)
            ELSE <<"-">> \o ReplaceRuns(Tail(s), X)
       ELSE <<s[1]>> \o ReplaceRuns(Tail(s), X)

generateSlug(title) ==
  trim(ReplaceRuns(ReplaceRuns(StripOther(toLowerCase(title)), Whitespace), {"-"}))

\* content.split(/\s+/).length: the pieces between the maximal runs of
\* whitespace, an empty piece at an end where a run touches it; the empty
\* string splits into one empty piece
SplitLength(s) ==
  Cardinality({i \in DOMAIN s :
                 s[i] \in Whitespace /\ (i = 1 \/ s[i-1] \notin Whitespace)}) + 1

wordsPerMinute == 200

\* Math.ceil(a / b) for a >= 0, b > 0
Ceil(a, b) == IF a % b = 0 THEN a \div b ELSE (a \div b) + 1

calculateReadingTimeFloor(content) ==
  SplitLength(trim(content)) \div wordsPerMinute

calculateReadingTime(content) ==
  Ceil(SplitLength(trim(content)), wordsPerMinute)

(***************************************************************************)
(* Requests: who calls, and what the bodies hold.                          *)
(***************************************************************************)
\* The identities of the identity provider.  "u1" is created by POST /signup,
\* with its user record; "u2" signed in with Google (the client's
\* signInWithOAuth): the provider knows it and no handler wrote its record.
SignupUsers == {"u1"}
OAuthUsers == {"u2"}
Users == SignupUsers \cup OAuthUsers
Null == "null"
\* a bearer credential: the token of an identity, or none / an invalid one
Tokens == Users \cup {"anon"}

\* supabase.auth.getUser(accessToken): the identity of a valid token
AnyTokenIsUser(token) == token

getAuthenticatedUser(token) ==
  IF token \in OAuthUsers \/ token \in DOMAIN users THEN token ELSE Null

TitleFoo == <<"F","o","o">>
TitleHi == <<"H","i"," ","-","x">>
Titles == {TitleFoo, TitleHi}
ContentXY == <<"x"," ","y">>
ContentFoo == <<"a"," ","f","o","o">>
TagJs == <<"j","s">>
TagGo == <<"G","o">>

\* the JSON bodies of POST /blogs and PUT /blogs/:id, isDraft apart
Bodies == { [title |-> TitleFoo, content |-> ContentXY, tags |-> <<TagJs>>],
            [title |-> TitleHi, content |-> ContentFoo, tags |-> <<TagJs, TagGo>>] }
\* a body POST /blogs refuses: the title is empty
NoTitle == [title |-> <<>>, content |-> ContentXY, tags |-> <<>>]

\* isDraft in a body: the key absent, or a boolean
DraftInputs == {"absent", "true", "false"}

CommentContents == { <<>>, <<" ">>, <<"o","k"," ">> }

BlogIds == 1..MaxBlogs
Slugs == {generateSlug(t) : t \in Titles} \cup {<<"n","o">>}

\* kv.getByPrefix returns the values in an order the store chooses
ScanOrders(S) ==
  {o \in [1..Cardinality(S) -> S] : \A i, j \in DOMAIN o : i # j => o[i] # o[j]}

\* c.json(body, status): the response of the request served last
Reply(status, body) == [status |-> status, body |-> body]
\* a helper under test returns value
Returns(value) == Reply(0, [value |-> value])
NoReply == Reply(0, [idle |-> TRUE])
\* the helper fn is to be applied to arg
Call(fn, arg) == [fn |-> fn, arg |-> arg]
Error(status, message) == Reply(status, [error |-> message])
\* the route served last, and the argument of a helper under test
Route(fn) == [fn |-> fn, arg |-> <<>>]
NoReq == Route("none")

\* {...record, author: ...}
WithAuthor(record, author) ==
  [k \in DOMAIN record \cup {"author"} |-> IF k = "author" THEN author ELSE record[k]]

(***************************************************************************)
(* The state after deployment: an empty store.                             *)
(***************************************************************************)
\* a handler slot with no request in it
Idle == [op |-> "idle", pc |-> "", user |-> Null, blogId |-> 0,
         isDraft |-> "absent", arg |-> <<>>, read |-> <<>>]

EmptyStore ==
  /\ inflight = [i \in 1..MaxInFlight |-> Idle]
  /\ returned = <<>>
  /\ blogs = <<>>
  /\ published = <<>>
  /\ userBlogs = <<>>
  /\ comments = <<>>
  /\ users = <<>>
  /\ nextBlogId = 1
  /\ nextCommentId = 1
  /\ now = 1

Init ==
  /\ EmptyStore
  /\ req = NoReq
  /\ resp = NoReply

\* kv.set(key, value) and kv.del(key) on one namespace
KvSet(ns, key, value) == [k \in DOMAIN ns \cup {key} |-> IF k = key THEN value ELSE ns[k]]
KvDel(ns, key) == [k \in DOMAIN ns \ {key} |-> ns[k]]

\* kv.get(`user:${id}:blogs`) || []
UserBlogsOf(u) == IF u \in DOMAIN userBlogs THEN userBlogs[u] ELSE <<>>

\* the published-index entry of a blog
IndexEntry(id, title, tags, slug, authorId, createdAt) ==
  [id |-> id, title |-> title, tags |-> tags, slug |-> slug,
   authorId |-> authorId, createdAt |-> createdAt]

\* the handler of route fn answers with reply
Answer(fn, reply) ==
  /\ req' = Route(fn)
  /\ resp' = reply
  /\ UNCHANGED <<inflight, returned>>

\* an early return: an error response, and nothing written
Refuse(fn, status, message) ==
  /\ Answer(fn, Error(status, message))
  /\ UNCHANGED <<blogs, published, userBlogs, comments, users,
                 nextBlogId, nextCommentId, now>>

\* new Date() of a request that stamps a record: the next request reads the
\* same millisecond or a later one
ClockMoves == now' \in {now, now + 1}

(***************************************************************************)
(* POST /signup                                                            *)
(***************************************************************************)
DefaultPreferences ==
  [emailNotifications |-> TRUE, publicProfile |-> TRUE, showEmail |-> FALSE,
   showPhone |-> FALSE, showLocation |-> TRUE]

Signup(u, name) ==
  IF name = <<>>
  THEN Refuse("signup", 400, "Missing required fields")
  ELSE IF u \in OAuthUsers \/ u \in DOMAIN users
       \* supabase.auth.admin.createUser fails: the email is registered
  THEN Refuse("signup", 400, "createUser")
  ELSE /\ users' = KvSet(users, u, [id |-> u, name |-> name,
                                    preferences |-> DefaultPreferences])
       /\ Answer("signup", Reply(200, [user |-> u]))
       /\ UNCHANGED <<blogs, published, userBlogs, comments,
                      nextBlogId, nextCommentId, now>>

(***************************************************************************)
(* POST /blogs                                                             *)
(***************************************************************************)
\* if (!isDraft): whether POST /blogs writes the index entry
CreateIndexesNever(isDraft) == FALSE

CreateIndexes(isDraft) == isDraft # "true"

CreateBlog(token, body, isDraft) ==
  LET user == getAuthenticatedUser(token) IN
  IF user = Null
  THEN Refuse("createBlog", 401, "Unauthorized")
  ELSE IF body.title = <<>> \/ body.content = <<>>
  THEN Refuse("createBlog", 400, "Title and content are required")
  ELSE LET blogId == nextBlogId
           slug == generateSlug(body.title)
           blog == [id |-> blogId, title |-> body.title, content |-> body.content,
                    slug |-> slug, tags |-> body.tags,
                    isDraft |-> (isDraft = "true"),
                    readingTime |-> calculateReadingTime(body.content),
                    authorId |-> user, createdAt |-> now, views |-> 0]
       IN /\ blogs' = KvSet(blogs, blogId, blog)
          /\ userBlogs' = KvSet(userBlogs, user, Append(UserBlogsOf(user), blogId))
          /\ published' = IF CreateIndexes(isDraft)
                          THEN KvSet(published, blogId,
                                 IndexEntry(blogId, body.title, body.tags, slug, user, now))
                          ELSE published
          /\ nextBlogId' = nextBlogId + 1
          /\ ClockMoves
          /\ Answer("createBlog", Reply(200, [blog |-> blog]))
          /\ UNCHANGED <<comments, users, nextCommentId>>

(***************************************************************************)
(* PUT /blogs/:id                                                          *)
(***************************************************************************)
\* existingBlog.authorId !== user.id (also blog.authorId !== user.id of DELETE)
NotOwnerNever(blog, user) == FALSE

NotOwner(blog, user) == blog.authorId # user

\* isDraft !== undefined ? isDraft : existingBlog.isDraft
UpdatedIsDraft(isDraft, existingBlog) ==
  IF isDraft # "absent" THEN isDraft = "true" ELSE existingBlog.isDraft

\* the else branch of the index update: kv.del(`blog:published:${blogId}`)
UnpublishKeeps(blogId) == published

Unpublish(blogId) == KvDel(published, blogId)

\* createdAt of the index entry PUT /blogs/:id writes
IndexCreatedAtOfWrite(existingBlog) == now

IndexCreatedAt(existingBlog) == existingBlog.createdAt

UpdateBlog(token, blogId, body, isDraft) ==
  LET user == getAuthenticatedUser(token) IN
  IF user = Null
  THEN Refuse("updateBlog", 401, "Unauthorized")
  ELSE IF blogId \notin DOMAIN blogs
  THEN Refuse("updateBlog", 404, "Blog not found")
  ELSE IF NotOwner(blogs[blogId], user)
  THEN Refuse("updateBlog", 403, "Forbidden")
  ELSE LET existingBlog == blogs[blogId]
           slug == generateSlug(body.title)
           updatedBlog == [existingBlog EXCEPT
                             !.title = body.title,
                             !.content = body.content,
                             !.slug = slug,
                             !.tags = body.tags,
                             !.isDraft = UpdatedIsDraft(isDraft, existingBlog),
                             !.readingTime = calculateReadingTime(body.content)]
       IN /\ blogs' = KvSet(blogs, blogId, updatedBlog)
          /\ published' = IF ~updatedBlog.isDraft
                          THEN KvSet(published, blogId,
                                 IndexEntry(blogId, body.title, body.tags, slug,
                                            user, IndexCreatedAt(existingBlog)))
                          ELSE Unpublish(blogId)
          /\ Answer("updateBlog", Reply(200, [blog |-> updatedBlog]))
          /\ UNCHANGED <<userBlogs, comments, users,
                         nextBlogId, nextCommentId, now>>

(***************************************************************************)
(* DELETE /blogs/:id                                                       *)
(***************************************************************************)
\* kv.getByPrefix(`comment:${blogId}:`): the keys of the blog's comments
CommentKeysOf(blogId) == {k \in DOMAIN comments : k[1] = blogId}

\* the comments that survive the cascade of DELETE /blogs/:id
CommentsAfterDeleteKeepsAll(blogId) == comments

CommentsAfterDeleteDropsAll(blogId) == <<>>

CommentsAfterDelete(blogId) ==
  [k \in DOMAIN comments \ CommentKeysOf(blogId) |-> comments[k]]

DeleteBlog(token, blogId) ==
  LET user == getAuthenticatedUser(token) IN
  IF user = Null
  THEN Refuse("deleteBlog", 401, "Unauthorized")
  ELSE IF blogId \notin DOMAIN blogs
  THEN Refuse("deleteBlog", 404, "Blog not found")
  ELSE IF NotOwner(blogs[blogId], user)
  THEN Refuse("deleteBlog", 403, "Forbidden")
  ELSE /\ blogs' = KvDel(blogs, blogId)
       /\ published' = KvDel(published, blogId)
       /\ userBlogs' = KvSet(userBlogs, user,
                              SelectSeq(UserBlogsOf(user), LAMBDA id : id # blogId))
       /\ comments' = CommentsAfterDelete(blogId)
       /\ Answer("deleteBlog", Reply(200, [success |-> TRUE]))
       /\ UNCHANGED <<users, nextBlogId, nextCommentId, now>>

(***************************************************************************)
(* GET /blogs/:slug                                                        *)
(***************************************************************************)
\* the author projection of a response: {id, name}, or null
AuthorOf(u) ==
  IF u \in DOMAIN users THEN <<[id |-> users[u].id, name |-> users[u].name]>> ELSE <<>>

\* the loop without its break: the last entry with the slug
FindBySlugLast(slug, order) ==
  LET hits == {i \in DOMAIN order : published[order[i]].slug = slug}
  IN IF hits = {} THEN 0
     ELSE published[order[CHOOSE i \in hits : \A j \in hits : i >= j]].id

\* the loop over the published index: the first entry with the slug
FindBySlug(slug, order) ==
  LET hits == {i \in DOMAIN order : published[order[i]].slug = slug}
  IN IF hits = {} THEN 0
     ELSE published[order[CHOOSE i \in hits : \A j \in hits : i <= j]].id

\* the views counted so far, over the stored blogs
RECURSIVE SumViews(_)
SumViews(S) ==
  IF S = {} THEN 0
  ELSE LET id == CHOOSE x \in S : TRUE IN blogs[id].views + SumViews(S \ {id})

TotalViews == SumViews(DOMAIN blogs)

\* blog.views = (blog.views || 0) + 1
ViewedNot(blog) == blog

ViewedAndRestamped(blog) == [blog EXCEPT !.views = blog.views + 1, !.createdAt = now]

Viewed(blog) == [blog EXCEPT !.views = blog.views + 1]

GetBlogBySlug(slug, order) ==
  LET targetBlogId == FindBySlug(slug, order) IN
  IF targetBlogId = 0 \/ targetBlogId \notin DOMAIN blogs
  THEN Refuse("getBlogBySlug", 404, "Blog not found")
  ELSE LET blog == Viewed(blogs[targetBlogId])
       IN /\ blogs' = KvSet(blogs, targetBlogId, blog)
          /\ Answer("getBlogBySlug",
                    Reply(200, [blog |-> WithAuthor(blog, AuthorOf(blog.authorId))]))
          /\ UNCHANGED <<published, userBlogs, comments, users,
                         nextBlogId, nextCommentId, now>>

(***************************************************************************)
(* POST /blogs/:blogId/comments and GET /blogs/:blogId/comments            *)
(***************************************************************************)
\* !blog || blog.isDraft
CommentRefusedOnlyIfMissing(blogId) == blogId \notin DOMAIN blogs

CommentRefused(blogId) == blogId \notin DOMAIN blogs \/ blogs[blogId].isDraft

AddComment(token, blogId, content) ==
  LET user == getAuthenticatedUser(token) IN
  IF user = Null
  THEN Refuse("addComment", 401, "Unauthorized")
  ELSE IF trim(content) = <<>>
  THEN Refuse("addComment", 400, "Comment content is required")
  ELSE IF CommentRefused(blogId)
  THEN Refuse("addComment", 404, "Blog not found")
  ELSE LET commentId == nextCommentId
           comment == [id |-> commentId, blogId |-> blogId,
                       content |-> trim(content), authorId |-> user,
                       createdAt |-> now]
       IN /\ comments' = KvSet(comments, <<blogId, commentId>>, comment)
          /\ nextCommentId' = nextCommentId + 1
          /\ ClockMoves
             \* author.id of a missing user record throws: the catch answers 500
          /\ Answer("addComment",
                    IF user \in DOMAIN users
                    THEN Reply(200, [comment |-> WithAuthor(comment, AuthorOf(user))])
                    ELSE Error(500, "Internal server error creating comment"))
          /\ UNCHANGED <<blogs, published, userBlogs, users, nextBlogId>>

\* Array.prototype.sort by createdAt, newest first; the sort is stable
RECURSIVE InsertNewestFirst(_, _)
InsertNewestFirst(x, s) ==
  IF s = <<>> THEN <<x>>
  ELSE IF s[1].createdAt >= x.createdAt
       THEN <<s[1]>> \o InsertNewestFirst(x, Tail(s))
       ELSE <<x>> \o s

RECURSIVE SortNewestFirst(_)
SortNewestFirst(s) ==
  IF s = <<>> THEN <<>>
  ELSE InsertNewestFirst(s[Len(s)], SortNewestFirst(SubSeq(s, 1, Len(s) - 1)))

\* the response of GET /blogs/:blogId/comments, the prefix scan in `order`
ListComments(blogId, order) ==
  SortNewestFirst([i \in DOMAIN order |->
     WithAuthor(comments[order[i]], AuthorOf(comments[order[i]].authorId))])

(***************************************************************************)
(* Decimal numerals.                                                       *)
(***************************************************************************)
DigitValue(c) ==
  CASE c = "0" -> 0 [] c = "1" -> 1 [] c = "2" -> 2 [] c = "3" -> 3 [] c = "4" -> 4
    [] c = "5" -> 5 [] c = "6" -> 6 [] c = "7" -> 7 [] c = "8" -> 8 [] c = "9" -> 9

\* the value of a string of decimal digits
RECURSIVE DigitsValue(_)
DigitsValue(s) ==
  IF s = <<>> THEN 0
  ELSE 10 * DigitsValue(SubSeq(s, 1, Len(s) - 1)) + DigitValue(s[Len(s)])

(***************************************************************************)
(* GET /blogs                                                              *)
(***************************************************************************)
\* the search and tag filters of the scan, on one full blog record
Matches(blog, search, tag) ==
  /\ ~ ( /\ search # <<>>
         /\ ~includes(toLowerCase(blog.title), toLowerCase(search))
         /\ ~includes(toLowerCase(blog.content), toLowerCase(search)) )
  /\ ~ ( tag # <<>> /\ toLowerCase(tag) \notin Range(blog.tags) )

\* blogIds: the index entries, in scan order, whose record exists and matches
MatchingIds(search, tag, order) ==
  SelectSeq([i \in DOMAIN order |-> published[order[i]].id],
            LAMBDA id : id \in DOMAIN blogs /\ Matches(blogs[id], search, tag))

\* Array.prototype.slice(start, end)
slice(s, start, end) ==
  LET len == Len(s)
      from == IF start < 0 THEN (IF len + start > 0 THEN len + start ELSE 0)
              ELSE (IF start < len THEN start ELSE len)
      to == IF end < 0 THEN (IF len + end > 0 THEN len + end ELSE 0)
            ELSE (IF end < len THEN end ELSE len)
  IN SubSeq(s, from + 1, to)

\* const startIndex = (page - 1) * limit
StartIndexFromPage(page, limit) == page * limit

StartIndex(page, limit) == (page - 1) * limit

\* the response of GET /blogs without authorId
ListPublished(search, tag, page, limit, order) ==
  LET blogIds == MatchingIds(search, tag, order)
      validBlogs == SortNewestFirst([i \in DOMAIN blogIds |-> blogs[blogIds[i]]])
      startIndex == StartIndex(page, limit)
      endIndex == startIndex + limit
      paginatedBlogs == slice(validBlogs, startIndex, endIndex)
  IN [blogs |-> [i \in DOMAIN paginatedBlogs |->
                   WithAuthor(paginatedBlogs[i], AuthorOf(paginatedBlogs[i].authorId))],
      total |-> Len(validBlogs),
      page |-> page,
      totalPages |-> Ceil(Len(validBlogs), limit)]

\* const isOwner = user?.id === authorId
IsOwnerAlways(user, authorId) == TRUE

IsOwner(user, authorId) == user = authorId

\* the response of GET /blogs?authorId=
ListByAuthor(token, authorId) ==
  LET user == getAuthenticatedUser(token)
      isOwner == IsOwner(user, authorId)
      ids == UserBlogsOf(authorId)
      filteredBlogs ==
        SelectSeq(ids, LAMBDA id : id \in DOMAIN blogs
                                   /\ (isOwner \/ ~blogs[id].isDraft))
  IN [blogs |-> [i \in DOMAIN filteredBlogs |-> blogs[filteredBlogs[i]]],
      total |-> Len(filteredBlogs)]

(***************************************************************************)
(* GET /tags                                                               *)
(***************************************************************************)
\* the tags of the published blogs' full records, in scan order
RECURSIVE ScannedTags(_)
ScannedTags(order) ==
  IF order = <<>> THEN <<>>
  ELSE ScannedTags(SubSeq(order, 1, Len(order) - 1)) \o
       (IF published[order[Len(order)]].id \in DOMAIN blogs
        THEN blogs[published[order[Len(order)]].id].tags
        ELSE <<>>)

\* tagCounts[tag] after the scan
TagCount(tag, order) ==
  LET all == ScannedTags(order)
  IN Cardinality({i \in DOMAIN all : all[i] = tag})

\* Array.prototype.sort by count, largest first; the sort is stable
RECURSIVE InsertLargestFirst(_, _)
InsertLargestFirst(x, s) ==
  IF s = <<>> THEN <<x>>
  ELSE IF s[1].count >= x.count
       THEN <<s[1]>> \o InsertLargestFirst(x, Tail(s))
       ELSE <<x>> \o s

RECURSIVE SortLargestFirst(_)
SortLargestFirst(s) ==
  IF s = <<>> THEN <<>>
  ELSE InsertLargestFirst(s[Len(s)], SortLargestFirst(SubSeq(s, 1, Len(s) - 1)))

\* an own property key that is an array index: a canonical decimal numeral
\* (no leading zero); the tags here are far below 2^32 - 1
IsArrayIndex(key) ==
  /\ key # <<>>
  /\ \A i \in DOMAIN key : key[i] \in Digits
  /\ Len(key) = 1 \/ key[1] # "0"

RECURSIVE InsertAscending(_, _)
InsertAscending(key, s) ==
  IF s = <<>> THEN <<key>>
  ELSE IF DigitsValue(s[1]) <= DigitsValue(key)
       THEN <<s[1]>> \o InsertAscending(key, Tail(s))
       ELSE <<key>> \o s

RECURSIVE SortAscending(_)
SortAscending(s) ==
  IF s = <<>> THEN <<>>
  ELSE InsertAscending(s[Len(s)], SortAscending(SubSeq(s, 1, Len(s) - 1)))

\* Object.entries(tagCounts): the keys that are array indices in ascending
\* numeric order, then the other keys in the order they were first set
OwnKeys(all) ==
  LET first == SelectSeq([i \in DOMAIN all |-> i],
                         LAMBDA i : \A j \in 1..(i-1) : all[j] # all[i])
      keys == [i \in DOMAIN first |-> all[first[i]]]
  IN SortAscending(SelectSeq(keys, IsArrayIndex)) \o
     SelectSeq(keys, LAMBDA key : ~IsArrayIndex(key))

\* the response of GET /tags: the entries sorted by count, the first 20
PopularTags(order) ==
  LET keys == OwnKeys(ScannedTags(order))
      entries == [i \in DOMAIN keys |->
                    [tag |-> keys[i], count |-> TagCount(keys[i], order)]]
  IN slice(SortLargestFirst(entries), 0, 20)

\* GET /tags as a request; the request keeps the order the scan returned
GetTags(order) ==
  /\ req' = Call("popularTags", order)
  /\ resp' = Reply(200, [tags |-> PopularTags(order)])
  /\ UNCHANGED <<blogs, published, userBlogs, comments, users,
                 nextBlogId, nextCommentId, now, inflight, returned>>

(***************************************************************************)
(* The content service: requests one at a time.                            *)
(***************************************************************************)
Names == { <<>>, <<"A","l">> }

\* Between two requests that stamp a record the clock of Spec has moved on;
\* a bound caps what a request allocates or counts.
TimePasses ==
  (nextBlogId' # nextBlogId \/ nextCommentId' # nextCommentId) => now' # now

Next ==
  \/ \E u \in Users, name \in Names : Signup(u, name)
  \/ \E token \in Tokens, body \in Bodies \cup {NoTitle}, isDraft \in DraftInputs :
        nextBlogId <= MaxBlogs /\ CreateBlog(token, body, isDraft) /\ TimePasses
  \/ \E token \in Tokens, blogId \in BlogIds, body \in Bodies, isDraft \in DraftInputs :
        UpdateBlog(token, blogId, body, isDraft)
  \/ \E token \in Tokens, blogId \in BlogIds : DeleteBlog(token, blogId)
  \/ \E slug \in Slugs, order \in ScanOrders(DOMAIN published) :
        TotalViews < MaxViews /\ GetBlogBySlug(slug, order)
  \/ \E token \in Tokens, blogId \in BlogIds, content \in CommentContents :
        nextCommentId <= MaxComments /\ AddComment(token, blogId, content) /\ TimePasses

Spec == Init /\ [][Next]_vars

(***************************************************************************)
(* GET /blogs as a request: the listing of a store that createBlog built.  *)
(***************************************************************************)
Searches == { <<>>, <<"H","I">> }
TagQueries == { <<>>, <<"G","O">> }
Pages == {1, 2, 3}
Limits == {1, 2}

ListBlogs(token, search, tag, page, limit, authorId, order) ==
  /\ req' = Call("listBlogs", [search |-> search, tag |-> tag, page |-> page,
                                limit |-> limit, authorId |-> authorId])
  /\ resp' = Reply(200, IF authorId # ""
                        THEN ListByAuthor(token, authorId)
                        ELSE ListPublished(search, tag, page, limit, order))
  /\ UNCHANGED <<blogs, published, userBlogs, comments, users,
                 nextBlogId, nextCommentId, now, inflight, returned>>

\* the bodies the listed blogs are created from: the filters tell them apart
ListBodies == { [title |-> TitleFoo, content |-> ContentXY, tags |-> <<TagJs>>],
                [title |-> TitleHi, content |-> ContentFoo, tags |-> <<TagJs, <<"g","o">>>>] }

NextList ==
  \/ \E token \in Tokens, body \in ListBodies, isDraft \in DraftInputs :
        nextBlogId <= MaxListed /\ CreateBlog(token, body, isDraft)
  \/ \E search \in Searches, tag \in TagQueries, page \in Pages, limit \in Limits,
        order \in ScanOrders(DOMAIN published) :
        ListBlogs("anon", search, tag, page, limit, "", order)
  \/ \E token \in Tokens, authorId \in Users, order \in ScanOrders(DOMAIN published) :
        ListBlogs(token, <<>>, <<>>, 1, 1, authorId, order)

SpecList == Init /\ [][NextList]_vars

(***************************************************************************)
(* PUT /users/:userId and GET /users/:userId                               *)
(***************************************************************************)
PrefKeys == {"emailNotifications", "publicProfile", "showEmail", "showPhone",
             "showLocation"}

\* preferences: { ...existingUser.preferences, ...preferences }
MergePreferencesOntoDefaults(existing, patch) ==
  [k \in PrefKeys |-> IF k \in DOMAIN patch THEN patch[k] ELSE DefaultPreferences[k]]

MergePreferences(existing, patch) ==
  [k \in DOMAIN existing \cup DOMAIN patch |->
     IF k \in DOMAIN patch THEN patch[k] ELSE existing[k]]

\* the user projection of both profile responses
UserSummary(user) == [id |-> user.id, name |-> user.name, preferences |-> user.preferences]

\* user.id !== userId
NotSelfNever(user, userId) == FALSE

NotSelf(user, userId) == user # userId

UpdateProfile(token, userId, patch) ==
  LET user == getAuthenticatedUser(token) IN
  IF user = Null
  THEN Refuse("updateProfile", 401, "Unauthorized")
  ELSE IF NotSelf(user, userId)
  THEN Refuse("updateProfile", 403, "Forbidden")
  ELSE IF userId \notin DOMAIN users
  THEN Refuse("updateProfile", 404, "User not found")
  ELSE IF trim(patch.name) = <<>>
  THEN Refuse("updateProfile", 400, "Name is required")
  ELSE LET existingUser == users[userId]
           updatedUser == [existingUser EXCEPT
                             !.name = trim(patch.name),
                             !.preferences =
                                MergePreferences(existingUser.preferences,
                                                 patch.preferences)]
       IN /\ users' = KvSet(users, userId, updatedUser)
          /\ Answer("updateProfile", Reply(200, [user |-> UserSummary(updatedUser)]))
          /\ UNCHANGED <<blogs, published, userBlogs, comments,
                         nextBlogId, nextCommentId, now>>

\* the preferences of a patch: up to MaxPatchKeys of the five keys; a patch
\* without preferences spreads nothing, like the empty object
PreferencePatches ==
  UNION {[S -> BOOLEAN] : S \in {T \in SUBSET PrefKeys : Cardinality(T) <= MaxPatchKeys}}

PatchNames == { <<" ">>, <<" ","B","o">> }

NextProfile ==
  \/ \E u \in Users, name \in Names : Signup(u, name)
  \/ \E token \in Tokens, userId \in Users, name \in PatchNames,
        preferences \in PreferencePatches :
        UpdateProfile(token, userId, [name |-> name, preferences |-> preferences])

SpecProfile == Init /\ [][NextProfile]_vars

(***************************************************************************)
(* The helpers on their own: generateSlug over every title of a small      *)
(* alphabet, calculateReadingTime over contents of a given number of       *)
(* words, alone and as POST /blogs and PUT /blogs/:id store it.            *)
(***************************************************************************)
SlugAlphabet == {"A", "b", "1", " ", "\t", "-", "!"}
TitlesUpTo(n) == UNION {[1..k -> SlugAlphabet] : k \in 0..n}

InitSlug ==
  /\ EmptyStore
  /\ req \in {Call("generateSlug", t) : t \in TitlesUpTo(MaxTitleLen)}
  /\ resp = NoReply

ApplyGenerateSlug ==
  /\ req.fn = "generateSlug"
  /\ resp = NoReply
  /\ resp' = Returns(generateSlug(req.arg))
  /\ UNCHANGED <<blogs, published, userBlogs, comments, users,
                 nextBlogId, nextCommentId, now, req, inflight, returned>>

SpecSlug == InitSlug /\ [][ApplyGenerateSlug]_vars

\* `lead` blanks, then `words` one-letter words `gap` whitespace characters
\* apart, then `tail` blanks
TextOf(words, lead, gap, tail) ==
  LET inner == IF words = 0 THEN 0 ELSE words + (words - 1) * gap
  IN [i \in 1..(lead + inner + tail) |->
        IF i <= lead \/ i > lead + inner THEN " "
        ELSE IF (i - lead - 1) % (gap + 1) = 0 THEN "w"
        ELSE IF (i - lead) % 2 = 0 THEN " " ELSE "\n"]

ContentShapes == {<<0, 1, 0>>, <<1, 1, 0>>, <<0, 2, 1>>, <<2, 3, 2>>}
ContentsOf(W) == {TextOf(w, sh[1], sh[2], sh[3]) : w \in W, sh \in ContentShapes}

InitReadingTime ==
  /\ EmptyStore
  /\ req \in {NoReq} \cup
             {Call("calculateReadingTime", text) : text \in ContentsOf(0..MaxWords)}
  /\ resp = NoReply

ApplyReadingTime ==
  /\ req.fn = "calculateReadingTime"
  /\ resp = NoReply
  /\ resp' = Returns(calculateReadingTime(req.arg))
  /\ UNCHANGED <<blogs, published, userBlogs, comments, users,
                 nextBlogId, nextCommentId, now, req, inflight, returned>>

\* the contents POST /blogs and PUT /blogs/:id are given here: the word
\* counts next to a multiple of wordsPerMinute
StoredContents ==
  ContentsOf({w \in 0..MaxWords : w % wordsPerMinute \in {0, 1, wordsPerMinute - 1}})

NextReadingTime ==
  \/ ApplyReadingTime
  \/ \E token \in Tokens, content \in StoredContents, isDraft \in DraftInputs :
       /\ req.fn # "calculateReadingTime" /\ nextBlogId = 1
       /\ CreateBlog(token, [title |-> TitleFoo, content |-> content, tags |-> <<>>],
                     isDraft)
  \/ \E token \in Tokens, content \in StoredContents :
       /\ req.fn # "calculateReadingTime"
       /\ UpdateBlog(token, 1, [title |-> TitleFoo, content |-> content, tags |-> <<>>],
                     "absent")

SpecReadingTime == InitReadingTime /\ [][NextReadingTime]_vars

(***************************************************************************)
(* The claims.                                                             *)
(***************************************************************************)
(* GET /users/:userId                                                      *)
(***************************************************************************)
\* publishedBlogs.length: the ids of the user's list whose record exists and
\* is not a draft
BlogCountIgnoresDrafts(userId) == Len(UserBlogsOf(userId))

BlogCount(userId) ==
  Len(SelectSeq(UserBlogsOf(userId),
                LAMBDA id : id \in DOMAIN blogs /\ ~blogs[id].isDraft))

GetProfile(userId) ==
  /\ req' = Call("getProfile", userId)
  /\ resp' = IF userId \notin DOMAIN users
             THEN Error(404, "User not found")
             ELSE Reply(200, [user |-> [id |-> users[userId].id,
                                        name |-> users[userId].name,
                                        preferences |-> users[userId].preferences,
                                        blogCount |-> BlogCount(userId)]])
  /\ UNCHANGED <<blogs, published, userBlogs, comments, users,
                 nextBlogId, nextCommentId, now, inflight, returned>>

(***************************************************************************)
(* The blogs of an author: the write handlers of blogs, and the two reads  *)
(* that go through the author's blog-id list.                              *)
(***************************************************************************)
NextAuthor ==
  \/ \E u \in Users, name \in Names : Signup(u, name)
  \/ \E token \in Tokens, body \in Bodies, isDraft \in DraftInputs :
        nextBlogId <= MaxBlogs /\ CreateBlog(token, body, isDraft) /\ TimePasses
  \/ \E token \in Tokens, blogId \in BlogIds, body \in Bodies, isDraft \in DraftInputs :
        UpdateBlog(token, blogId, body, isDraft)
  \/ \E token \in Tokens, blogId \in BlogIds : DeleteBlog(token, blogId)
  \/ \E token \in Tokens, authorId \in Users, order \in ScanOrders(DOMAIN published) :
        ListBlogs(token, <<>>, <<>>, 1, 1, authorId, order)
  \/ \E userId \in Users : GetProfile(userId)

SpecAuthor == Init /\ [][NextAuthor]_vars

(***************************************************************************)
(* GET /blogs, from the query string: c.req.query(name) || default, and    *)
(* parseInt of page and limit.  A parameter that is absent is the empty    *)
(* string here: both take the default.                                     *)
(***************************************************************************)
\* parseInt of a decimal numeral with an optional sign
parseInt(s) == IF s[1] = "-" THEN 0 - DigitsValue(Tail(s)) ELSE DigitsValue(s)

\* value || fallback, on strings
OrElse(value, fallback) == IF value = <<>> THEN fallback ELSE value

\* c.req.query('limit') || '10', c.req.query('page') || '1'
DefaultLimit == <<"1","0">>
DefaultPage == <<"1">>

GetBlogs(token, query, order) ==
  ListBlogs(token, query.search, query.tag,
            parseInt(OrElse(query.page, DefaultPage)),
            parseInt(OrElse(query.limit, DefaultLimit)),
            query.authorId, order)

\* the index entries in the order of their keys
RECURSIVE KeyOrder(_)
KeyOrder(S) ==
  IF S = {} THEN <<>>
  ELSE LET least == CHOOSE x \in S : \A y \in S : x <= y
       IN <<least>> \o KeyOrder(S \ {least})

PageQueries == { <<>>, <<"0">>, <<"-","1">>, <<"2">>, <<"-","2">>, <<"1","3">> }
LimitQueries == { <<>>, <<"1">>, <<"2">>, <<"1","2">> }
Queries ==
  { [search |-> <<>>, tag |-> <<>>, page |-> page, limit |-> limit, authorId |-> ""] :
      page \in PageQueries, limit \in LimitQueries }

\* a store of up to MaxManyBlogs published blogs, created one after the
\* other, and its listings from query strings; the scan is in key order
NextQuery ==
  \/ \E token \in Tokens :
        /\ nextBlogId <= MaxManyBlogs
        /\ CreateBlog(token, [title |-> TitleFoo, content |-> ContentXY, tags |-> <<>>],
                      "absent")
        /\ TimePasses
  \/ \E query \in Queries : GetBlogs("anon", query, KeyOrder(DOMAIN published))

SpecQuery == Init /\ [][NextQuery]_vars

(***************************************************************************)
(* The five routes that write and need a bearer credential, with POST      *)
(* /signup, on a store of up to MaxOwned blogs.                            *)
(***************************************************************************)
\* the preferences of a patch here: none, or showEmail alone
AccessPatches == {P \in PreferencePatches : DOMAIN P \subseteq {"showEmail"}}
AccessBody == [title |-> TitleFoo, content |-> ContentXY, tags |-> <<TagJs>>]

NextAccess ==
  \/ \E u \in Users, name \in Names : Signup(u, name)
  \/ \E token \in Tokens, body \in {AccessBody, NoTitle}, isDraft \in DraftInputs :
        nextBlogId <= MaxOwned /\ CreateBlog(token, body, isDraft) /\ TimePasses
  \/ \E token \in Tokens, blogId \in BlogIds, isDraft \in DraftInputs :
        UpdateBlog(token, blogId, AccessBody, isDraft)
  \/ \E token \in Tokens, blogId \in BlogIds : DeleteBlog(token, blogId)
  \/ \E token \in Tokens, blogId \in BlogIds, content \in CommentContents :
        nextCommentId <= MaxComments /\ AddComment(token, blogId, content) /\ TimePasses
  \/ \E token \in Tokens, userId \in Users, name \in PatchNames,
        preferences \in AccessPatches :
        UpdateProfile(token, userId, [name |-> name, preferences |-> preferences])

SpecAccess == Init /\ [][NextAccess]_vars

(***************************************************************************)
(* Tags: blogs whose tags hold capitals and decimal numerals, the tag      *)
(* counts and the tag filter of the listing.                               *)
(***************************************************************************)
TagSeven == <<"7">>
TagTen == <<"1","0">>
TagBodies == { [title |-> TitleFoo, content |-> ContentXY, tags |-> <<TagJs, TagSeven>>],
               [title |-> TitleHi, content |-> ContentFoo, tags |-> <<TagGo, TagTen, TagJs>>] }
TagFilters == { <<"g","o">>, <<"G","o">>, <<"J","S">>, TagSeven }

NextTags ==
  \/ \E token \in Tokens, body \in TagBodies, isDraft \in DraftInputs :
        nextBlogId <= MaxBlogs /\ CreateBlog(token, body, isDraft) /\ TimePasses
  \/ \E order \in ScanOrders(DOMAIN published) : GetTags(order)
  \/ \E tag \in TagFilters, order \in ScanOrders(DOMAIN published) :
        GetBlogs("anon", [search |-> <<>>, tag |-> tag, page |-> <<>>, limit |-> <<>>,
                          authorId |-> ""], order)

SpecTags == Init /\ [][NextTags]_vars

(***************************************************************************)
(* The handlers one store call at a time.  A request in flight sits in a   *)
(* slot of `inflight` between two of its awaits: pc names the store call   *)
(* it makes next, read holds what it has read or built so far.  A step is  *)
(* one kv call together with the synchronous code up to the next await or  *)
(* to the response.  The checks before the first store call (the token,    *)
(* the body) touch no key: a request enters its slot with its first call.  *)
(***************************************************************************)
InFlight == {i \in DOMAIN inflight : inflight[i].op # "idle"}

\* the request of slot i awaits the store call pc
At(i, op, pc) == inflight[i].op = op /\ inflight[i].pc = pc

\* the 200 responses of route op about blog blogId so far
Returned(op, blogId) ==
  IF <<op, blogId>> \in DOMAIN returned THEN returned[<<op, blogId>>] ELSE 0

RECURSIVE SumReturned(_)
SumReturned(S) ==
  IF S = {} THEN 0
  ELSE LET k == CHOOSE x \in S : TRUE IN returned[k] + SumReturned(S \ {k})

\* the requests accepted so far that are in flight or were answered 200
Accepted == Cardinality(InFlight) + SumReturned(DOMAIN returned)

\* a request arrives: it takes the first free slot
Arrives(i) ==
  /\ inflight[i].op = "idle"
  /\ \A j \in DOMAIN inflight : j < i => inflight[j].op # "idle"
  /\ Accepted < MaxRequests

Enter(i, op, pc, user, blogId, isDraft, arg, read) ==
  inflight' = [inflight EXCEPT ![i] =
                 [op |-> op, pc |-> pc, user |-> user, blogId |-> blogId,
                  isDraft |-> isDraft, arg |-> arg, read |-> read]]

\* on to the next store call
Goto(i, pc, read) ==
  inflight' = [inflight EXCEPT ![i].pc = pc, ![i].read = read]

\* return c.json(...): the slot is free again
Respond(i, status) ==
  /\ inflight' = [inflight EXCEPT ![i] = Idle]
  /\ returned' = IF status = 200
                 THEN LET key == <<inflight[i].op, inflight[i].blogId>>
                      IN [k \in DOMAIN returned \cup {key} |->
                            IF k = key THEN Returned(key[1], key[2]) + 1
                            ELSE returned[k]]
                 ELSE returned

\* ---- GET /blogs/:slug ----
\* lines 266-278: the scan of the index and the loop for the slug
GetBlogBySlugScan(i, slug, order) ==
  /\ Arrives(i)
  /\ LET targetBlogId == FindBySlug(slug, order) IN
     IF targetBlogId = 0
     THEN UNCHANGED vars   \* an early error response, nothing written
     ELSE /\ Enter(i, "getBlogBySlug", "get", Null, targetBlogId, "absent", slug, <<>>)
          /\ UNCHANGED <<blogs, published, userBlogs, comments, users,
                         nextBlogId, nextCommentId, now, req, resp, returned>>

\* lines 280-286: kv.get of the record, and views + 1 on the copy read
GetBlogBySlugGet(i) ==
  /\ At(i, "getBlogBySlug", "get")
  /\ IF inflight[i].blogId \notin DOMAIN blogs
     THEN Respond(i, 404)
     ELSE /\ Goto(i, "set", <<Viewed(blogs[inflight[i].blogId])>>)
          /\ UNCHANGED returned
  /\ UNCHANGED <<blogs, published, userBlogs, comments, users,
                 nextBlogId, nextCommentId, now, req, resp>>

\* line 287: kv.set of the whole record
GetBlogBySlugSet(i) ==
  /\ At(i, "getBlogBySlug", "set")
  /\ blogs' = KvSet(blogs, inflight[i].blogId, inflight[i].read[1])
  /\ Goto(i, "author", inflight[i].read)
  /\ UNCHANGED <<published, userBlogs, comments, users,
                 nextBlogId, nextCommentId, now, req, resp, returned>>

\* lines 290-300: kv.get of the author, and the response
GetBlogBySlugReturn(i) ==
  /\ At(i, "getBlogBySlug", "author")
  /\ Respond(i, 200)
  /\ UNCHANGED <<blogs, published, userBlogs, comments, users,
                 nextBlogId, nextCommentId, now, req, resp>>

\* ---- PUT /blogs/:id ----
\* lines 317-338: kv.get of the record, the owner check, updatedBlog
UpdateBlogGet(i, token, blogId, body, isDraft) ==
  /\ Arrives(i)
  /\ LET user == getAuthenticatedUser(token) IN
     IF user = Null \/ blogId \notin DOMAIN blogs \/ NotOwner(blogs[blogId], user)
     THEN UNCHANGED vars   \* an early error response, nothing written
     ELSE LET existingBlog == blogs[blogId]
              updatedBlog == [existingBlog EXCEPT
                                !.title = body.title,
                                !.content = body.content,
                                !.slug = generateSlug(body.title),
                                !.tags = body.tags,
                                !.isDraft = UpdatedIsDraft(isDraft, existingBlog),
                                !.readingTime = calculateReadingTime(body.content)]
          IN /\ Enter(i, "updateBlog", "set", user, blogId, isDraft, body,
                      <<updatedBlog, existingBlog>>)
             /\ UNCHANGED <<blogs, published, userBlogs, comments, users,
                            nextBlogId, nextCommentId, now, req, resp, returned>>

\* line 340: kv.set of updatedBlog
UpdateBlogSet(i) ==
  /\ At(i, "updateBlog", "set")
  /\ blogs' = KvSet(blogs, inflight[i].blogId, inflight[i].read[1])
  /\ Goto(i, "index", inflight[i].read)
  /\ UNCHANGED <<published, userBlogs, comments, users,
                 nextBlogId, nextCommentId, now, req, resp, returned>>

\* lines 343-357: kv.set or kv.del of the index entry, and the response
UpdateBlogIndex(i) ==
  /\ At(i, "updateBlog", "index")
  /\ LET updatedBlog == inflight[i].read[1]
         existingBlog == inflight[i].read[2]
     IN published' = IF ~updatedBlog.isDraft
                     THEN KvSet(published, inflight[i].blogId,
                            IndexEntry(inflight[i].blogId, updatedBlog.title,
                                       updatedBlog.tags, updatedBlog.slug,
                                       inflight[i].user, IndexCreatedAt(existingBlog)))
                     ELSE Unpublish(inflight[i].blogId)
  /\ Respond(i, 200)
  /\ UNCHANGED <<blogs, userBlogs, comments, users,
                 nextBlogId, nextCommentId, now, req, resp>>

\* ---- DELETE /blogs/:id ----
\* lines 373-380: kv.get of the record and the owner check
DeleteBlogGet(i, token, blogId) ==
  /\ Arrives(i)
  /\ LET user == getAuthenticatedUser(token) IN
     IF user = Null \/ blogId \notin DOMAIN blogs \/ NotOwner(blogs[blogId], user)
     THEN UNCHANGED vars   \* an early error response, nothing written
     ELSE /\ Enter(i, "deleteBlog", "delBlog", user, blogId, "absent", <<>>, <<>>)
          /\ UNCHANGED <<blogs, published, userBlogs, comments, users,
                         nextBlogId, nextCommentId, now, req, resp, returned>>

\* line 383: kv.del of the record
DeleteBlogDelBlog(i) ==
  /\ At(i, "deleteBlog", "delBlog")
  /\ blogs' = KvDel(blogs, inflight[i].blogId)
  /\ Goto(i, "delIndex", <<>>)
  /\ UNCHANGED <<published, userBlogs, comments, users,
                 nextBlogId, nextCommentId, now, req, resp, returned>>

\* line 384: kv.del of the index entry
DeleteBlogDelIndex(i) ==
  /\ At(i, "deleteBlog", "delIndex")
  /\ published' = KvDel(published, inflight[i].blogId)
  /\ Goto(i, "getList", <<>>)
  /\ UNCHANGED <<blogs, userBlogs, comments, users,
                 nextBlogId, nextCommentId, now, req, resp, returned>>

\* lines 387-388: kv.get of the author's list, and the filter
DeleteBlogGetList(i) ==
  /\ At(i, "deleteBlog", "getList")
  /\ Goto(i, "setList", SelectSeq(UserBlogsOf(inflight[i].user),
                                  LAMBDA id : id # inflight[i].blogId))
  /\ UNCHANGED <<blogs, published, userBlogs, comments, users,
                 nextBlogId, nextCommentId, now, req, resp, returned>>

\* line 389: kv.set of the filtered list
DeleteBlogSetList(i) ==
  /\ At(i, "deleteBlog", "setList")
  /\ userBlogs' = KvSet(userBlogs, inflight[i].user, inflight[i].read)
  /\ Goto(i, "scan", <<>>)
  /\ UNCHANGED <<blogs, published, comments, users,
                 nextBlogId, nextCommentId, now, req, resp, returned>>

\* line 392: kv.getByPrefix of the blog's comments
DeleteBlogScan(i, order) ==
  /\ At(i, "deleteBlog", "scan")
  /\ Goto(i, "delComments", order)
  /\ UNCHANGED <<blogs, published, userBlogs, comments, users,
                 nextBlogId, nextCommentId, now, req, resp, returned>>

\* lines 393-397: kv.del of the next comment of the scan; after the last
\* one the response
DeleteBlogDelComments(i) ==
  /\ At(i, "deleteBlog", "delComments")
  /\ IF inflight[i].read = <<>>
     THEN Respond(i, 200) /\ UNCHANGED comments
     ELSE /\ comments' = KvDel(comments, Head(inflight[i].read))
          /\ Goto(i, "delComments", Tail(inflight[i].read))
          /\ UNCHANGED returned
  /\ UNCHANGED <<blogs, published, userBlogs, users,
                 nextBlogId, nextCommentId, now, req, resp>>

\* ---- POST /blogs ----
\* lines 120-150: the record is built and kv.set
CreateBlogSet(i, token, body, isDraft) ==
  /\ Arrives(i)
  /\ LET user == getAuthenticatedUser(token) IN
     IF user = Null \/ body.title = <<>> \/ body.content = <<>>
     THEN UNCHANGED vars   \* an early error response, nothing written
     ELSE LET blogId == nextBlogId
              blog == [id |-> blogId, title |-> body.title, content |-> body.content,
                       slug |-> generateSlug(body.title), tags |-> body.tags,
                       isDraft |-> (isDraft = "true"),
                       readingTime |-> calculateReadingTime(body.content),
                       authorId |-> user, createdAt |-> now, views |-> 0]
          IN /\ blogs' = KvSet(blogs, blogId, blog)
             /\ nextBlogId' = nextBlogId + 1
             /\ Enter(i, "createBlog", "getList", user, blogId, isDraft, body, <<>>)
             /\ UNCHANGED <<published, userBlogs, comments, users,
                            nextCommentId, now, req, resp, returned>>

\* lines 153-154: kv.get of the author's list, and the push
CreateBlogGetList(i) ==
  /\ At(i, "createBlog", "getList")
  /\ Goto(i, "setList", Append(UserBlogsOf(inflight[i].user), inflight[i].blogId))
  /\ UNCHANGED <<blogs, published, userBlogs, comments, users,
                 nextBlogId, nextCommentId, now, req, resp, returned>>

\* lines 155-158: kv.set of the list; a draft is answered here
CreateBlogSetList(i) ==
  /\ At(i, "createBlog", "setList")
  /\ userBlogs' = KvSet(userBlogs, inflight[i].user, inflight[i].read)
  /\ IF CreateIndexes(inflight[i].isDraft)
     THEN Goto(i, "index", <<>>) /\ UNCHANGED returned
     ELSE Respond(i, 200)
  /\ UNCHANGED <<blogs, published, comments, users,
                 nextBlogId, nextCommentId, now, req, resp>>

\* lines 159-169: kv.set of the index entry, and the response
CreateBlogIndex(i) ==
  /\ At(i, "createBlog", "index")
  /\ LET body == inflight[i].arg
     IN published' = KvSet(published, inflight[i].blogId,
                       IndexEntry(inflight[i].blogId, body.title, body.tags,
                                  generateSlug(body.title), inflight[i].user, now))
  /\ Respond(i, 200)
  /\ UNCHANGED <<blogs, userBlogs, comments, users,
                 nextBlogId, nextCommentId, now, req, resp>>

\* ---- POST /blogs/:blogId/comments ----
\* lines 419-431: kv.get of the blog, and the comment is built
AddCommentGet(i, token, blogId, content) ==
  /\ Arrives(i)
  /\ LET user == getAuthenticatedUser(token) IN
     IF user = Null \/ trim(content) = <<>> \/ CommentRefused(blogId)
     THEN UNCHANGED vars   \* an early error response, nothing written
     ELSE LET commentId == nextCommentId
              comment == [id |-> commentId, blogId |-> blogId,
                          content |-> trim(content), authorId |-> user,
                          createdAt |-> now]
          IN /\ nextCommentId' = nextCommentId + 1
             /\ Enter(i, "addComment", "set", user, blogId, "absent", content,
                      <<comment>>)
             /\ UNCHANGED <<blogs, published, userBlogs, comments, users,
                            nextBlogId, now, req, resp, returned>>

\* line 433: kv.set of the comment
AddCommentSet(i) ==
  /\ At(i, "addComment", "set")
  /\ comments' = KvSet(comments,
                       <<inflight[i].blogId, inflight[i].read[1].id>>,
                       inflight[i].read[1])
  /\ Goto(i, "author", inflight[i].read)
  /\ UNCHANGED <<blogs, published, userBlogs, users,
                 nextBlogId, nextCommentId, now, req, resp, returned>>

\* lines 436-449: kv.get of the author; author.id of a missing record
\* throws, and the catch answers 500
AddCommentReturn(i) ==
  /\ At(i, "addComment", "author")
  /\ Respond(i, IF inflight[i].user \in DOMAIN users THEN 200 ELSE 500)
  /\ UNCHANGED <<blogs, published, userBlogs, comments, users,
                 nextBlogId, nextCommentId, now, req, resp>>

\* the requests of SpecSteps: one author, one title, one reader who comments
\* once signed up
StepToken == "u2"
StepReader == "u1"
StepBody == [title |-> TitleFoo, content |-> ContentXY, tags |-> <<TagJs>>]
StepDrafts == {"true", "false"}
\* blogId is a random UUID: a client names the ids that the response of a
\* createBlog gave it
KnownIds == {b \in BlogIds : Returned("createBlog", b) > 0}

NextSteps ==
  \/ \E i \in DOMAIN inflight, order \in ScanOrders(DOMAIN published) :
        GetBlogBySlugScan(i, generateSlug(StepBody.title), order)
  \/ \E i \in DOMAIN inflight : GetBlogBySlugGet(i)
  \/ \E i \in DOMAIN inflight : GetBlogBySlugSet(i)
  \/ \E i \in DOMAIN inflight : GetBlogBySlugReturn(i)
  \/ \E i \in DOMAIN inflight, blogId \in KnownIds, isDraft \in StepDrafts :
        UpdateBlogGet(i, StepToken, blogId, StepBody, isDraft)
  \/ \E i \in DOMAIN inflight : UpdateBlogSet(i)
  \/ \E i \in DOMAIN inflight : UpdateBlogIndex(i)
  \/ \E i \in DOMAIN inflight, blogId \in KnownIds : DeleteBlogGet(i, StepToken, blogId)
  \/ \E i \in DOMAIN inflight : DeleteBlogDelBlog(i)
  \/ \E i \in DOMAIN inflight : DeleteBlogDelIndex(i)
  \/ \E i \in DOMAIN inflight : DeleteBlogGetList(i)
  \/ \E i \in DOMAIN inflight : DeleteBlogSetList(i)
  \/ \E i \in DOMAIN inflight :
        \E order \in ScanOrders(CommentKeysOf(inflight[i].blogId)) :
           DeleteBlogScan(i, order)
  \/ \E i \in DOMAIN inflight : DeleteBlogDelComments(i)
  \/ \E i \in DOMAIN inflight, isDraft \in StepDrafts :
        nextBlogId <= MaxBlogs /\ CreateBlogSet(i, StepToken, StepBody, isDraft)
  \/ \E i \in DOMAIN inflight : CreateBlogGetList(i)
  \/ \E i \in DOMAIN inflight : CreateBlogSetList(i)
  \/ \E i \in DOMAIN inflight : CreateBlogIndex(i)
  \/ \E i \in DOMAIN inflight, blogId \in KnownIds :
        nextCommentId <= MaxComments
        /\ AddCommentGet(i, StepReader, blogId, <<"o","k"," ">>)
  \/ \E i \in DOMAIN inflight : AddCommentSet(i)
  \/ \E i \in DOMAIN inflight : AddCommentReturn(i)
  \/ Signup(StepReader, <<"A","l">>)

SpecSteps == Init /\ [][NextSteps]_vars

(***************************************************************************)
(* The read routes as requests, on a store that signup, createBlog and     *)
(* addComment built: GET /blogs in both branches, GET comments, GET        *)
(* /users/:userId, GET /tags and GET /blogs/:slug.                         *)
(***************************************************************************)
\* GET /blogs/:blogId/comments as a request
GetComments(blogId, order) ==
  /\ req' = Call("listComments", blogId)
  /\ resp' = Reply(200, [comments |-> ListComments(blogId, order)])
  /\ UNCHANGED <<blogs, published, userBlogs, comments, users,
                 nextBlogId, nextCommentId, now, inflight, returned>>

NextReads ==
  \/ \E u \in SignupUsers : Signup(u, <<"A","l">>)
  \/ \E token \in Users, isDraft \in {"absent", "true"} :
        nextBlogId <= MaxBlogs /\ CreateBlog(token, StepBody, isDraft) /\ TimePasses
  \/ \E token \in Users, blogId \in BlogIds :
        nextCommentId <= MaxComments
        /\ AddComment(token, blogId, <<"o","k"," ">>) /\ TimePasses
  \/ \E order \in ScanOrders(DOMAIN published) :
        ListBlogs("anon", <<>>, <<>>, 1, 2, "", order)
  \/ \E token \in Tokens, authorId \in Users, order \in ScanOrders(DOMAIN published) :
        ListBlogs(token, <<>>, <<>>, 1, 2, authorId, order)
  \/ \E blogId \in BlogIds :
        \E order \in ScanOrders(CommentKeysOf(blogId)) : GetComments(blogId, order)
  \/ \E userId \in Users : GetProfile(userId)
  \/ \E order \in ScanOrders(DOMAIN published) : GetTags(order)
  \/ \E slug \in Slugs, order \in ScanOrders(DOMAIN published) :
        TotalViews < MaxViews /\ GetBlogBySlug(slug, order)

SpecReads == Init /\ [][NextReads]_vars

(***************************************************************************)
Deleted(b) == b < nextBlogId /\ b \notin DOMAIN blogs
IdsOf(list) == {list[i].id : i \in DOMAIN list}

(***************************************************************************)
(* C1.  With the requests served one at a time, after any sequence of      *)
(* createBlog, updateBlog, deleteBlog, getBlogBySlug and addComment, for   *)
(* every blog id b: the index entry blog:published:b exists if and only if *)
(* the record blog:b exists and its isDraft is false.                      *)
(***************************************************************************)
C1_IndexMirrorsDraft ==
  \A b \in BlogIds :
    (b \in DOMAIN published) <=> (b \in DOMAIN blogs /\ blogs[b].isDraft = FALSE)

\* a fetched, commented, indexed blog beside a draft that is not indexed
C1_Witness ==
  \E b, d \in DOMAIN blogs :
    /\ b \in DOMAIN published /\ blogs[b].views > 0 /\ CommentKeysOf(b) # {}
    /\ blogs[d].isDraft /\ d \notin DOMAIN published

(***************************************************************************)
(* C2.  For an existing blog b and an authenticated caller other than      *)
(* b.authorId, updateBlog and deleteBlog both answer 403 Forbidden, and    *)
(* the blog record, its index entry, the author's blog-id list and the     *)
(* blog's comments are the same after the request as before it.            *)
(***************************************************************************)
C2_NonOwnerForbidden ==
  [][ \A token \in Tokens, b \in BlogIds :
        ( /\ getAuthenticatedUser(token) # Null
          /\ b \in DOMAIN blogs
          /\ blogs[b].authorId # getAuthenticatedUser(token)
          /\ \/ \E body \in Bodies, isDraft \in DraftInputs :
                  UpdateBlog(token, b, body, isDraft)
             \/ DeleteBlog(token, b) )
        => /\ resp'.status = 403
           /\ UNCHANGED <<blogs, published, userBlogs, comments>> ]_vars

\* a non-owner was refused on a store holding a published, commented blog
C2_Witness ==
  /\ req.fn \in {"updateBlog", "deleteBlog"}
  /\ resp.status = 403
  /\ \E b \in DOMAIN published : CommentKeysOf(b) # {}

(***************************************************************************)
(* C3.  Once updateBlog by the owner has turned a published blog into a    *)
(* draft, and until it is published again, no listBlogs request without    *)
(* authorId returns it (whatever the search, tag, page and limit),         *)
(* getBlogBySlug does not find it, and its tags add nothing to the counts  *)
(* of popularTags.                                                         *)
(***************************************************************************)
\* the occurrences of tag among the tags of the non-draft blogs other than b
RECURSIVE OccurrencesElsewhere(_, _, _)
OccurrencesElsewhere(tag, b, S) ==
  IF S = {} THEN 0
  ELSE LET c == CHOOSE x \in S : TRUE
       IN (IF c # b /\ ~blogs[c].isDraft
           THEN Cardinality({i \in DOMAIN blogs[c].tags : blogs[c].tags[i] = tag})
           ELSE 0)
          + OccurrencesElsewhere(tag, b, S \ {c})

C3_DraftIsInvisible ==
  \A b \in DOMAIN blogs :
    blogs[b].isDraft =>
      \A order \in ScanOrders(DOMAIN published) :
        /\ \A search \in Searches, tag \in TagQueries, page \in Pages, limit \in Limits :
             b \notin IdsOf(ListPublished(search, tag, page, limit, order).blogs)
        /\ \A slug \in Slugs \cup {blogs[b].slug} : FindBySlug(slug, order) # b
        /\ \A tag \in Range(blogs[b].tags) :
             /\ TagCount(tag, order) = OccurrencesElsewhere(tag, b, DOMAIN blogs)
             /\ \A i \in DOMAIN PopularTags(order) :
                  PopularTags(order)[i].tag = tag =>
                    PopularTags(order)[i].count = OccurrencesElsewhere(tag, b, DOMAIN blogs)

\* updateBlog has just answered with a draft that was fetched while it was
\* published, beside a published blog with a tag of the draft
C3_Witness ==
  /\ req.fn = "updateBlog" /\ resp.status = 200
  /\ resp.body.blog.isDraft /\ resp.body.blog.views > 0
  /\ \E c \in DOMAIN published :
       Range(blogs[c].tags) \cap Range(resp.body.blog.tags) # {}

(***************************************************************************)
(* C4.  With the requests served one at a time, after deleteBlog(b) by the *)
(* owner has answered success for a blog with N >= 0 comments:             *)
(* listComments(b) is empty, the record blog:b and the entry               *)
(* blog:published:b are absent, and b is not in the author's blog-id list. *)
(***************************************************************************)
C4_DeleteLeavesNothing ==
  \A b \in BlogIds :
    Deleted(b) =>
      /\ b \notin DOMAIN blogs
      /\ b \notin DOMAIN published
      /\ \A order \in ScanOrders(CommentKeysOf(b)) : ListComments(b, order) = <<>>
      /\ \A k \in DOMAIN comments : comments[k].blogId # b
      /\ \A u \in DOMAIN userBlogs : b \notin Range(userBlogs[u])

\* deleteBlog has just answered success, and the comment written before it
\* is gone
C4_Witness ==
  /\ req.fn = "deleteBlog" /\ resp.status = 200
  /\ nextCommentId > 1 /\ comments = <<>>

(***************************************************************************)
(* C5.  A blog is created with views = 0; with the requests served one at  *)
(* a time every successful getBlogBySlug adds exactly 1 to the stored      *)
(* views of the blog it returns, and returns that value; no other request, *)
(* and no fetch answered 404, changes the views of a blog.                 *)
(***************************************************************************)
FetchReturns(b) ==
  /\ req'.fn = "getBlogBySlug"
  /\ resp'.status = 200
  /\ resp'.body.blog.id = b

C5_ViewsCountFetches ==
  [][ \A b \in BlogIds :
        /\ (b \notin DOMAIN blogs /\ b \in DOMAIN blogs') => blogs'[b].views = 0
        /\ (b \in DOMAIN blogs /\ b \in DOMAIN blogs') =>
             IF FetchReturns(b)
             THEN /\ blogs'[b].views = blogs[b].views + 1
                  /\ resp'.body.blog.views = blogs'[b].views
             ELSE blogs'[b].views = blogs[b].views
        /\ (req'.fn = "getBlogBySlug" /\ resp'.status = 200) =>
             resp'.body.blog.id \in DOMAIN blogs ]_vars

\* the second fetch of a blog has just returned views = 2
C5_Witness ==
  /\ req.fn = "getBlogBySlug" /\ resp.status = 200
  /\ resp.body.blog.views = 2
  /\ blogs[resp.body.blog.id].views = 2

(***************************************************************************)
(* C7.  addComment(b, caller, content) with non-empty content answers 404  *)
(* whenever blog b does not exist or is a draft, and then writes no        *)
(* comment record.  As stated: content non-empty.  As amended: content     *)
(* non-empty after trimming (whitespace alone is answered 400).            *)
(***************************************************************************)
C7_AsStated ==
  [][ \A token \in Tokens, b \in BlogIds, content \in CommentContents :
        ( /\ getAuthenticatedUser(token) # Null
          /\ content # <<>>
          /\ (b \notin DOMAIN blogs \/ blogs[b].isDraft)
          /\ AddComment(token, b, content) )
        => /\ resp'.status = 404
           /\ comments' = comments ]_vars

C7_NoCommentOnDraftOrMissing ==
  [][ \A token \in Tokens, b \in BlogIds, content \in CommentContents :
        ( /\ getAuthenticatedUser(token) # Null
          /\ trim(content) # <<>>
          /\ (b \notin DOMAIN blogs \/ blogs[b].isDraft)
          /\ AddComment(token, b, content) )
        => /\ resp'.status = 404
           /\ comments' = comments ]_vars

\* addComment was refused 404 where every blog id names a stored draft
C7_Witness ==
  /\ req.fn = "addComment" /\ resp.status = 404
  /\ \A b \in BlogIds : b \in DOMAIN blogs /\ blogs[b].isDraft

(***************************************************************************)
(* C6.  listBlogs without authorId, M published blogs matching the filter, *)
(* page p >= 1 and limit L >= 1: the blogs returned are the matches at     *)
(* positions (p-1)*L+1 .. min(p*L, M) of the matches ordered by createdAt, *)
(* newest first; total = M and totalPages = ceil(M / L).  With 3 matches,  *)
(* page 2 and limit 1 the second-newest blog alone is returned and         *)
(* totalPages = 3.                                                         *)
(***************************************************************************)
\* the published blogs that match the filter of the request
MatchSet(search, tag) ==
  {b \in DOMAIN blogs : ~blogs[b].isDraft /\ Matches(blogs[b], search, tag)}

Min(a, b) == IF a < b THEN a ELSE b

C6_Pagination ==
  (req.fn = "listBlogs" /\ req.arg.authorId = "") =>
    LET a == req.arg
        r == resp.body
        S == MatchSet(a.search, a.tag)
        M == Cardinality(S)
        first == (a.page - 1) * a.limit + 1
        last == Min(a.page * a.limit, M)
    IN /\ resp.status = 200
       /\ r.total = M
       /\ r.totalPages * a.limit >= M /\ (r.totalPages - 1) * a.limit < M
       /\ Len(r.blogs) = (IF last >= first THEN last - first + 1 ELSE 0)
       /\ \A i \in DOMAIN r.blogs :
            LET x == r.blogs[i]
                pos == first + i - 1
            IN /\ x.id \in S
               /\ \A k \in DOMAIN blogs[x.id] : x[k] = blogs[x.id][k]
               /\ \A j \in DOMAIN r.blogs : j # i => r.blogs[j].id # x.id
                  \* x is at position pos of the matches, newest first
               /\ Cardinality({b \in S : blogs[b].createdAt > x.createdAt}) <= pos - 1
               /\ Cardinality({b \in S : blogs[b].createdAt >= x.createdAt}) >= pos

\* three matches of different ages, page 2, limit 1: the second-newest alone,
\* totalPages = 3
C6_Witness ==
  /\ req.fn = "listBlogs" /\ req.arg.authorId = ""
  /\ req.arg.page = 2 /\ req.arg.limit = 1
  /\ resp.body.total = 3 /\ resp.body.totalPages = 3
  /\ Len(resp.body.blogs) = 1
  /\ Cardinality({b \in DOMAIN blogs :
                    blogs[b].createdAt > resp.body.blogs[1].createdAt}) = 1
  /\ Cardinality({b \in DOMAIN blogs :
                    blogs[b].createdAt < resp.body.blogs[1].createdAt}) = 1

(***************************************************************************)
(* C8.  A successful updateProfile whose patch holds the preferences P:    *)
(* each of the five preference keys absent from P keeps the value it had   *)
(* in the stored user record, each key present in P takes P's value.       *)
(***************************************************************************)
C8_PreferencesMergeShallowly ==
  [][ (req'.fn = "updateProfile" /\ resp'.status = 200) =>
        \A token \in Tokens, userId \in Users, name \in PatchNames,
           P \in PreferencePatches :
          UpdateProfile(token, userId, [name |-> name, preferences |-> P])
          => /\ DOMAIN users'[userId].preferences = PrefKeys
             /\ \A k \in PrefKeys :
                  users'[userId].preferences[k] =
                    IF k \in DOMAIN P THEN P[k] ELSE users[userId].preferences[k] ]_vars

\* the patch {showEmail: true} on preferences that had left the defaults
C8_Witness ==
  /\ req.fn = "updateProfile" /\ resp.status = 200
  /\ "u1" \in DOMAIN users
  /\ users["u1"].preferences =
       [DefaultPreferences EXCEPT !.showEmail = TRUE, !.publicProfile = FALSE,
                                  !.showLocation = FALSE]

(***************************************************************************)
(* C9.  For every title the generated slug holds only characters of        *)
(* [a-z0-9-], does not begin with a hyphen, does not end with a hyphen and *)
(* holds no two hyphens in a row (titles with leading or trailing spaces   *)
(* or hyphens included).                                                   *)
(***************************************************************************)
C9_SlugWellFormed ==
  (req.fn = "generateSlug" /\ "value" \in DOMAIN resp.body) =>
    LET slug == resp.body.value
    IN /\ \A i \in DOMAIN slug :
            slug[i] \in Range(LowerChars) \cup Digits \cup {"-"}
       /\ slug # <<>> => (slug[1] # "-" /\ slug[Len(slug)] # "-")
       /\ \A i \in 1..(Len(slug) - 1) : ~(slug[i] = "-" /\ slug[i+1] = "-")

(***************************************************************************)
(* C10.  For content of w whitespace-separated words, readingTime is       *)
(* max(1, ceil(w / 200)): 200 words give 1 and 201 words give 2; the       *)
(* value createBlog and updateBlog store on a blog is an integer >= 1.     *)
(***************************************************************************)
\* the words of a text: its maximal runs of characters that are not whitespace
WordCount(text) ==
  Cardinality({i \in DOMAIN text :
                 text[i] \notin Whitespace /\ (i = 1 \/ text[i-1] \in Whitespace)})

\* r = max(1, ceil(w / 200))
IsReadingTimeOf(r, w) ==
  /\ r \in Nat /\ r >= 1
  /\ w = 0 => r = 1
  /\ w > 0 => (200 * (r - 1) < w /\ w <= 200 * r)

C10_ReadingTime ==
  /\ (req.fn = "calculateReadingTime" /\ "value" \in DOMAIN resp.body) =>
       /\ IsReadingTimeOf(resp.body.value, WordCount(req.arg))
       /\ WordCount(req.arg) = 200 => resp.body.value = 1
       /\ WordCount(req.arg) = 201 => resp.body.value = 2
  /\ \A b \in DOMAIN blogs :
       IsReadingTimeOf(blogs[b].readingTime, WordCount(blogs[b].content))

\* 201 words were given: calculateReadingTime returned 2
C10_Witness ==
  /\ req.fn = "calculateReadingTime" /\ "value" \in DOMAIN resp.body
  /\ WordCount(req.arg) = 201 /\ resp.body.value = 2

(***************************************************************************)
(* C11.  listBlogs with authorId = a: the response holds a draft only if   *)
(* the request is authenticated as a; an anonymous caller and a caller     *)
(* authenticated as another user receive a's blogs that are not drafts,    *)
(* and only those.                                                         *)
(***************************************************************************)
C11_DraftsOnlyToTheirAuthor ==
  [][ (req'.fn = "listBlogs" /\ req'.arg.authorId # "") =>
        \A token \in Tokens, order \in ScanOrders(DOMAIN published) :
          ListBlogs(token, req'.arg.search, req'.arg.tag, req'.arg.page,
                    req'.arg.limit, req'.arg.authorId, order)
          => LET a == req'.arg.authorId
                 caller == getAuthenticatedUser(token)
                 list == resp'.body.blogs
             IN /\ resp'.status = 200
                /\ \A i \in DOMAIN list :
                     /\ list[i].id \in DOMAIN blogs /\ blogs[list[i].id] = list[i]
                     /\ list[i].authorId = a
                     /\ list[i].isDraft => caller = a
                /\ caller # a =>
                     {list[i].id : i \in DOMAIN list} =
                       {b \in DOMAIN blogs : blogs[b].authorId = a /\ ~blogs[b].isDraft}
                /\ caller = a =>
                     {list[i].id : i \in DOMAIN list} =
                       {b \in DOMAIN blogs : blogs[b].authorId = a} ]_vars

\* u1 signed up and holds a draft and a published blog; the listing of
\* authorId = u1 that was answered last holds the published one alone, as
\* an anonymous caller and the authenticated u2 receive it
C11_Witness ==
  /\ req.fn = "listBlogs" /\ req.arg.authorId = "u1"
  /\ \E d, b \in DOMAIN blogs :
       /\ blogs[d].authorId = "u1" /\ blogs[d].isDraft
       /\ blogs[b].authorId = "u1" /\ ~blogs[b].isDraft
       /\ Len(resp.body.blogs) = 1 /\ resp.body.blogs[1].id = b

(***************************************************************************)
(* C12.  For every listBlogs request without authorId the returned         *)
(* totalPages is at least 1, also when no published blog matches the       *)
(* filter (total = 0).                                                     *)
(***************************************************************************)
C12_TotalPagesAtLeastOne ==
  (req.fn = "listBlogs" /\ req.arg.authorId = "") => resp.body.totalPages >= 1

(***************************************************************************)
(* C13.  A listBlogs request without authorId that omits the limit         *)
(* parameter paginates with 12 items per page: it returns at most 12 blogs *)
(* and totalPages = ceil(total / 12).                                      *)
(***************************************************************************)
C13_DefaultLimitIsTwelve ==
  [][ \A query \in Queries :
        (query.limit = <<>> /\ GetBlogs("anon", query, KeyOrder(DOMAIN published)))
        => /\ Len(resp'.body.blogs) <= 12
           /\ resp'.body.totalPages = Ceil(resp'.body.total, 12) ]_vars

(***************************************************************************)
(* C14.  For listBlogs without authorId with M matches and limit L >= 1,   *)
(* every integer page p outside 1 .. ceil(M / L), p <= 0 and negative p    *)
(* included, yields a successful response whose list of blogs is empty.    *)
(***************************************************************************)
C14_OutOfRangePageIsEmpty ==
  (req.fn = "listBlogs" /\ req.arg.authorId = "" /\ req.arg.limit >= 1) =>
    LET M == Cardinality(MatchSet(req.arg.search, req.arg.tag))
        p == req.arg.page
    IN (p < 1 \/ p > Ceil(M, req.arg.limit)) =>
         (resp.status = 200 /\ resp.body.blogs = <<>>)

(***************************************************************************)
(* C15.  With requests one at a time, createdAt of a blog record never     *)
(* changes after createBlog, and whenever the published-index entry of     *)
(* blog b exists its createdAt is the createdAt of the record of b, after  *)
(* any number of updateBlog calls, draft-to-published and                  *)
(* published-to-draft-to-published transitions included.                   *)
(***************************************************************************)
C15_CreatedAtIsStable ==
  [][ /\ \A b \in DOMAIN blogs \cap DOMAIN blogs' :
           blogs'[b].createdAt = blogs[b].createdAt
      /\ \A b \in DOMAIN published' :
           /\ b \in DOMAIN blogs'
           /\ published'[b].createdAt = blogs'[b].createdAt ]_vars

\* updateBlog has just written the index entry of a blog, later than the
\* time the blog was created at
C15_Witness ==
  /\ req.fn = "updateBlog" /\ resp.status = 200
  /\ resp.body.blog.id \in DOMAIN published
  /\ published[resp.body.blog.id].createdAt = resp.body.blog.createdAt
  /\ now > resp.body.blog.createdAt + 1

(***************************************************************************)
(* C16.  Every createBlog, updateBlog, deleteBlog, addComment and          *)
(* updateProfile request whose bearer credential is absent or invalid is   *)
(* answered with 401, whatever its body and target (the 401 check comes    *)
(* before the 400, 403 and 404 checks), and leaves every key of the store  *)
(* unchanged.                                                              *)
(***************************************************************************)
\* the token is no credential of a user: absent, or of nobody who signed up
NoCredential(token) == token \notin OAuthUsers /\ token \notin DOMAIN users

Answered401 == resp'.status = 401 /\ UNCHANGED store

C16_NoCredentialIs401 ==
  [][ \A token \in Tokens :
        NoCredential(token) =>
          /\ req'.fn = "createBlog" =>
               \A body \in {AccessBody, NoTitle}, isDraft \in DraftInputs :
                 CreateBlog(token, body, isDraft) => Answered401
          /\ req'.fn = "updateBlog" =>
               \A blogId \in BlogIds, isDraft \in DraftInputs :
                 UpdateBlog(token, blogId, AccessBody, isDraft) => Answered401
          /\ req'.fn = "deleteBlog" =>
               \A blogId \in BlogIds : DeleteBlog(token, blogId) => Answered401
          /\ req'.fn = "addComment" =>
               \A blogId \in BlogIds, content \in CommentContents :
                 AddComment(token, blogId, content) => Answered401
          /\ req'.fn = "updateProfile" =>
               \A userId \in Users, name \in PatchNames, P \in AccessPatches :
                 UpdateProfile(token, userId, [name |-> name, preferences |-> P])
                 => Answered401 ]_vars

\* a request without credential was answered 401 on a store that holds a
\* user record, a blog and a comment: a target exists for each route
C16_Witness ==
  /\ resp.status = 401
  /\ req.fn \in {"createBlog", "updateBlog", "deleteBlog", "addComment", "updateProfile"}
  /\ users # <<>> /\ blogs # <<>> /\ comments # <<>>

(***************************************************************************)
(* C17.  The stored record of user u, once signup created it, changes only *)
(* by an updateProfile request authenticated as u; updateProfile on u by   *)
(* an authenticated caller other than u fails with 403, updateProfile by u *)
(* with a name that is empty after trimming fails with 400, and in both    *)
(* cases the record of u is unchanged.                                     *)
(***************************************************************************)
C17_OnlyOwnerChangesProfile ==
  [][ /\ \A u \in DOMAIN users :
           (u \notin DOMAIN users' \/ users'[u] # users[u]) =>
             /\ req'.fn = "updateProfile" /\ resp'.status = 200
             /\ \E token \in Tokens, name \in PatchNames, P \in AccessPatches :
                  /\ getAuthenticatedUser(token) = u
                  /\ UpdateProfile(token, u, [name |-> name, preferences |-> P])
      /\ req'.fn = "updateProfile" =>
           \A token \in Tokens, u \in DOMAIN users, name \in PatchNames,
              P \in AccessPatches :
             UpdateProfile(token, u, [name |-> name, preferences |-> P]) =>
               LET caller == getAuthenticatedUser(token)
               IN /\ (caller # Null /\ caller # u) =>
                       (resp'.status = 403 /\ users' = users)
                  /\ (caller = u /\ trim(name) = <<>>) =>
                       (resp'.status = 400 /\ users' = users) ]_vars

\* u1 had changed the name of its record; the updateProfile answered last
\* was refused with 403 and the record is as u1 left it
C17_Witness ==
  /\ req.fn = "updateProfile" /\ resp.status = 403
  /\ "u1" \in DOMAIN users /\ users["u1"].name = <<"B","o">>

(***************************************************************************)
(* C18.  popularTags returns at most 20 entries, ordered by non-increasing *)
(* count, and two entries of equal count are in the order in which their   *)
(* tags were first met in the scan of the published index, for every tag   *)
(* string (tags that are decimal numerals included).                       *)
(***************************************************************************)
\* the place in the scan where the tag was first met
FirstMet(tag, all) == CHOOSE i \in DOMAIN all :
                        all[i] = tag /\ \A j \in 1..(i-1) : all[j] # tag

C18_PopularTagsOrder ==
  req.fn = "popularTags" =>
    LET list == resp.body.tags
        all == ScannedTags(req.arg)
    IN /\ Len(list) <= 20
       /\ \A i, j \in DOMAIN list :
            i < j => /\ list[i].count >= list[j].count
                     /\ list[i].count = list[j].count =>
                          FirstMet(list[i].tag, all) < FirstMet(list[j].tag, all)

(***************************************************************************)
(* C19.  For every listBlogs request without authorId and with tag = t, a  *)
(* published blog is among the matches if and only if some tag of the blog *)
(* equals t ignoring letter case, for every blog the server accepted via   *)
(* createBlog or updateBlog (tags are stored as submitted).                *)
(***************************************************************************)
C19_TagFilterIgnoresCase ==
  ( /\ req.fn = "listBlogs" /\ req.arg.authorId = ""
    /\ req.arg.tag # <<>> /\ req.arg.search = <<>>
    /\ req.arg.page = 1 /\ resp.body.total <= req.arg.limit ) =>
    {resp.body.blogs[i].id : i \in DOMAIN resp.body.blogs} =
      {b \in DOMAIN blogs :
         /\ ~blogs[b].isDraft
         /\ \E i \in DOMAIN blogs[b].tags :
              toLowerCase(blogs[b].tags[i]) = toLowerCase(req.arg.tag)}

(***************************************************************************)
(* C20.  With requests one at a time, after any sequence of createBlog,    *)
(* updateBlog and deleteBlog requests, getProfile(u).blogCount is the      *)
(* number of blog records whose authorId is u and whose isDraft is false,  *)
(* which is the number of published-index entries with authorId u.         *)
(***************************************************************************)
C20_BlogCountIsPublishedCount ==
  (req.fn = "getProfile" /\ resp.status = 200) =>
    /\ resp.body.user.blogCount =
         Cardinality({b \in DOMAIN blogs :
                        blogs[b].authorId = req.arg /\ ~blogs[b].isDraft})
    /\ resp.body.user.blogCount =
         Cardinality({b \in DOMAIN published : published[b].authorId = req.arg})

\* u1 holds a published blog and a draft: its blogCount is 1
C20_Witness ==
  /\ req.fn = "getProfile" /\ req.arg = "u1" /\ resp.status = 200
  /\ resp.body.user.blogCount = 1
  /\ \E b \in DOMAIN blogs : blogs[b].authorId = "u1" /\ blogs[b].isDraft

\* the requests in flight that work on blog b
OnBlog(b) == {i \in InFlight : inflight[i].blogId = b}

\* how often id occurs in list
Occurrences(id, list) == Cardinality({i \in DOMAIN list : list[i] = id})

(***************************************************************************)
(* C21.  For every blog b, the stored views of b never decrease from one   *)
(* state to the next while the record of b exists, under every             *)
(* interleaving of the store reads and writes of concurrent getBlogBySlug  *)
(* and updateBlog requests on b.                                           *)
(***************************************************************************)
C21_ViewsNeverDecrease ==
  [][ \A b \in DOMAIN blogs \cap DOMAIN blogs' :
        blogs'[b].views >= blogs[b].views ]_vars

(***************************************************************************)
(* C22.  In every reachable state in which no request on blog b is in      *)
(* flight, the index entry blog:published:b exists if and only if the      *)
(* record blog:b exists with isDraft false, also when the store calls of   *)
(* two updateBlog requests, or of an updateBlog and a getBlogBySlug, on b  *)
(* interleave.                                                             *)
(***************************************************************************)
C22_IndexMirrorsDraftWhenQuiet ==
  \A b \in BlogIds :
    OnBlog(b) = {} =>
      (b \in DOMAIN published <=> (b \in DOMAIN blogs /\ ~blogs[b].isDraft))

(***************************************************************************)
(* C23.  Once deleteBlog(b) by the owner has returned success, neither     *)
(* blog:b nor blog:published:b exists in any later state, also when an     *)
(* updateBlog or getBlogBySlug that read b before the deletion writes      *)
(* after it.                                                               *)
(***************************************************************************)
C23_DeletedStaysDeleted ==
  \A b \in BlogIds :
    Returned("deleteBlog", b) > 0 => (b \notin DOMAIN blogs /\ b \notin DOMAIN published)

(***************************************************************************)
(* C24.  After any number of createBlog requests of one author have all    *)
(* returned success, and with no deleteBlog accepted, the author's list    *)
(* user:<id>:blogs holds every created id exactly once, also when the      *)
(* read, push and write of the list of two of the requests interleave.     *)
(***************************************************************************)
C24_ListHoldsEveryCreatedId ==
  ( /\ \A i \in InFlight : inflight[i].op # "deleteBlog"
    /\ \A b \in BlogIds : Returned("deleteBlog", b) = 0 ) =>
    \A b \in BlogIds :
      Returned("createBlog", b) > 0 => Occurrences(b, UserBlogsOf(StepToken)) = 1

(***************************************************************************)
(* C25.  In every reachable state with no request in flight, the blogId of *)
(* every stored comment is the id of an existing blog record, also when    *)
(* the store calls of an addComment and of a deleteBlog interleave.        *)
(***************************************************************************)
C25_NoOrphanComment ==
  InFlight = {} => \A k \in DOMAIN comments : comments[k].blogId \in DOMAIN blogs

(***************************************************************************)
(* C26.  When k getBlogBySlug requests for one published blog have all     *)
(* returned success, and no updateBlog touched the blog, its stored views  *)
(* have grown by exactly k (from the 0 of createBlog), also when the reads *)
(* and writes of the requests interleave.                                  *)
(***************************************************************************)
C26_ViewsCountFetches ==
  \A b \in DOMAIN blogs :
    ( /\ OnBlog(b) = {}
      /\ Returned("updateBlog", b) = 0 /\ Returned("deleteBlog", b) = 0 ) =>
      blogs[b].views = Returned("getBlogBySlug", b)

(***************************************************************************)
(* C27.  No request that is answered with an error has persisted part of   *)
(* its effect: a step answered with a status of 400 or more leaves every   *)
(* key of the store as it was, and an addComment request, also one of an   *)
(* authenticated caller without a user record, writes a comment only if    *)
(* it responds with the created comment.                                   *)
(***************************************************************************)
C27_NoEffectOnError ==
  [][ /\ resp'.status >= 400 => store' = store
      /\ (req'.fn = "addComment" /\ comments' # comments) =>
            (resp'.status = 200 /\ "comment" \in DOMAIN resp'.body) ]_vars

(***************************************************************************)
(* C28.  The id, blogId, content, authorId and createdAt of a stored       *)
(* comment never change, and a comment leaves the store only in a          *)
(* successful deleteBlog of its blog; an updateBlog that makes the blog a  *)
(* draft leaves all its comments stored, and listComments of a draft blog  *)
(* returns every stored comment of the blog.                               *)
(***************************************************************************)
C28_CommentsAreKept ==
  /\ [][ \A k \in DOMAIN comments :
           IF k \in DOMAIN comments'
           THEN comments'[k] = comments[k]
           ELSE /\ req'.fn = "deleteBlog" /\ resp'.status = 200
                /\ k[1] \in DOMAIN blogs /\ k[1] \notin DOMAIN blogs' ]_vars
  /\ [](\A b \in DOMAIN blogs :
          blogs[b].isDraft =>
            \A order \in ScanOrders(CommentKeysOf(b)) :
               {<<c.blogId, c.id>> : c \in Range(ListComments(b, order))}
                 = CommentKeysOf(b))

\* an updateBlog has just made a draft of a blog that has a comment
C28_Witness ==
  /\ req.fn = "updateBlog" /\ resp.status = 200
  /\ resp.body.blog.isDraft
  /\ CommentKeysOf(resp.body.blog.id) # {}
  /\ \E order \in ScanOrders(CommentKeysOf(resp.body.blog.id)) :
        Len(ListComments(resp.body.blog.id, order)) = 1

\* where blog b stands in a scan of the index
PositionIn(order, b) == CHOOSE i \in DOMAIN order : order[i] = b

\* the index entry of b repeats the record, and the slug is the title's
IndexRepeatsRecord(b) ==
  /\ b \in DOMAIN blogs
  /\ published[b].id = blogs[b].id
  /\ published[b].title = blogs[b].title
  /\ published[b].slug = blogs[b].slug
  /\ published[b].authorId = blogs[b].authorId
  /\ blogs[b].slug = generateSlug(blogs[b].title)

(***************************************************************************)
(* C29.  With the requests served one at a time: whenever the index entry  *)
(* of b exists, its id, title, slug and authorId are those of the record   *)
(* of b, and the slug of b is the slug generated from b's current title.   *)
(* After an updateBlog that changes the slug of a published b, the old     *)
(* slug no longer finds b, and the new slug finds b exactly when no other  *)
(* published blog with that slug comes before b in the scan of the index.  *)
(***************************************************************************)
C29_SlugFollowsTitle ==
  /\ [](\A b \in DOMAIN published : IndexRepeatsRecord(b))
  /\ [][ req'.fn = "updateBlog" =>
         \A b \in DOMAIN blogs \cap DOMAIN published', old \in Slugs, new \in Slugs :
           (old = blogs[b].slug /\ new = blogs'[b].slug /\ old # new) =>
             \A order \in ScanOrders(DOMAIN published') :
                /\ FindBySlug(old, order)' # b
                /\ FindBySlug(new, order)' = b <=>
                     \A i \in 1..(PositionIn(order, b) - 1) :
                        published'[order[i]].slug # new ]_vars

\* C29 as stated: after an updateBlog that changes the title of b, the new
\* slug finds b
C29_AsStated ==
  /\ [](\A b \in DOMAIN published : IndexRepeatsRecord(b))
  /\ [][ req'.fn = "updateBlog" =>
         \A b \in DOMAIN blogs \cap DOMAIN published', old \in Slugs, new \in Slugs :
           (old = blogs[b].slug /\ new = blogs'[b].slug
              /\ blogs'[b].title # blogs[b].title) =>
             \A order \in ScanOrders(DOMAIN published') :
                /\ FindBySlug(old, order)' # b
                /\ FindBySlug(new, order)' = b ]_vars

\* an updateBlog has just given a published blog the slug of another
\* published blog
C29_Witness ==
  /\ req.fn = "updateBlog" /\ resp.status = 200
  /\ resp.body.blog.id \in DOMAIN published
  /\ \E b \in DOMAIN published :
        /\ b # resp.body.blog.id
        /\ published[b].slug = resp.body.blog.slug

\* the routes that only read
ReadRoutes == {"listBlogs", "listComments", "getProfile", "popularTags"}

(***************************************************************************)
(* C30.  listBlogs in both branches, listComments, getProfile and          *)
(* popularTags leave every key of the store unchanged.  Among the read     *)
(* routes only a successful getBlogBySlug writes: it changes the views of  *)
(* the one blog record it returns and nothing else; a getBlogBySlug        *)
(* answered 404 writes nothing.                                            *)
(***************************************************************************)
C30_ReadsDoNotWrite ==
  [][ /\ req'.fn \in ReadRoutes => store' = store
      /\ req'.fn = "getBlogBySlug" =>
           IF resp'.status = 200
           THEN /\ UNCHANGED <<published, userBlogs, comments, users>>
                /\ resp'.body.blog.id \in DOMAIN blogs
                /\ blogs' = [blogs EXCEPT ![resp'.body.blog.id].views =
                                            blogs'[resp'.body.blog.id].views]
                /\ blogs' # blogs
           ELSE store' = store ]_vars

\* a read route has just answered on a store with a user, a comment and a
\* blog that a successful getBlogBySlug counted a view on
C30_Witness ==
  /\ req.fn \in ReadRoutes /\ resp.status = 200
  /\ \E b \in DOMAIN blogs : blogs[b].views > 0
  /\ DOMAIN published # {} /\ DOMAIN comments # {} /\ DOMAIN users # {}

====
